---- MODULE Spec2Model ----
(***************************************************************************)
(* Session state synchronisation of the game-chooser server.               *)
(*                                                                         *)
(* One session is modelled.  Its game state lives in two shared stores,    *)
(* the durable store (sessions.game_state) and the cache                   *)
(* (session:<id>:state), which every server instance reads and writes.     *)
(* A message handler is an async function: every `await` is a suspension   *)
(* point, so a handler is a small process whose steps interleave with the  *)
(* steps of the other handlers and of the spin completion timers.          *)
(***************************************************************************)
EXTENDS Integers, Sequences, FiniteSets, TLC

\* ------------------------------------------------------------------ bounds
Users == {"A", "B"}            \* member ids (currentUserId)
Names == {"Chess", "Go"}       \* game names a client may send
Handlers == {1, 2}             \* message handler invocations that may be in flight together
MaxSpins == 2                  \* start_spin computations per behaviour (Date.now() values)
MaxMessages == 2               \* messages per behaviour of Spec
MaxSeqMessages == 5            \* messages per behaviour of SeqSpec
MaxSpinMessages == 4           \* messages per behaviour of SpinSpec
MaxRestartMessages == 3        \* game_action messages per behaviour of RestartSpec
MaxEditMessages == 3           \* messages per behaviour of EditSpec
Limits == {0, 1}               \* limits a creator sends (0: the "unlimited" option, null)
MaxFaultMessages == 2          \* messages per behaviour of FaultSpec
MaxExpiryMessages == 2         \* game_action messages per behaviour of ExpirySpec
ServerIds == {"", "s1"}        \* process.env.SERVER_ID ("": the variable is not set)
MaxClock == 3                  \* Date.now() values (ms) of RateSpec, all within one window
MaxRateMessages == 5           \* messages of the one source per behaviour of RateSpec
RateLimit == 2                 \* messages admitted per window (stands for the 100 of the code)
MaxSessionIds == 4             \* ids that generateSessionId may draw
MaxWheelGames == 6             \* games on the wheel of WheelSpec
MaxJoins == 2                  \* join_session messages per behaviour of LinkSpec
MaxHopJoins == 3               \* join_session messages per behaviour of HopSpec
MaxHopActions == 2             \* game_action messages per behaviour of HopSpec
MaxKicks == 1                  \* kick_user messages per behaviour of LinkSpec
MaxConns == 3                  \* WebSocket connections (the last one is to the second instance)
SessionIds == 1..MaxSessionIds
Conns == 1..MaxConns
NetSessions == {"S", "T"}      \* sessions that connections may join
Instances == {1, 2}            \* server instances
NetSlots == {1, 2}             \* message handler invocations in flight together

\* localeCompare order of the names used
NameRank == [n \in Names |-> IF n = "Chess" THEN 1 ELSE 2]

\* --------------------------------------------------------------- game state
\* JavaScript null / undefined for a game entry and for spinData.
NullGame == [name |-> "", addedBy |-> ""]
NullSpin ==
    [isNull |-> TRUE, startTime |-> 0, baseRotation |-> 0, preCalculatedWinner |-> NullGame]

\* gameLimit 0 stands for null / undefined (the code tests it for truthiness);
\* userGameCounts[u] = 0 stands for an absent key (the code reads it `|| 0`).
DefaultGameState ==
    [selectedGames  |-> << >>,
     isSpinning     |-> FALSE,
     winner         |-> NullGame,
     spinData       |-> NullSpin,
     gameLimit      |-> 0,
     userGameCounts |-> [u \in Users |-> 0]]

NoCache == [present |-> FALSE, state |-> DefaultGameState]

VARIABLES
    db,            \* sessions.game_state of the session (durable store)
    cache,         \* session:<id>:state in the cache, or NoCache
    sessionUsers,  \* session_users rows of the session, ordered by joined_at
    connections,   \* member ids with an open joined connection
    handler,       \* per handler invocation: position and local variables
    timers,        \* per spin (keyed by its startTime): the setTimeout callback
    now,           \* number of start_spin computations so far (Date.now())
    received,      \* messages received so far
    cleared,       \* history: spins (startTime) that a clear_all_games wrote over
    clearedDone,   \* history: spins that a finished clear_all_games found in progress
    dropped,       \* history: the request dropped last, and the error reply (ws.send) it got
    spinCompleted, \* history: a completion was stored since the last clear_all_games was
    serverId,      \* process.env.SERVER_ID of the instance ("" when it is not set)
    lastBroadcast, \* the last broadcastToSession of a game_state_update, and its fan-out
    expired,       \* the session's row is past expires_at
    limiter,       \* the rate limiter's counters in the cache, and the clock
    registry,      \* the ids in the sessions table and in the connections map
    wheel,         \* the rotation computation of a start_spin
    net            \* connections, sessions and instances: who is registered where

hist == <<cleared, clearedDone, dropped, spinCompleted>>
side == <<serverId, expired, limiter, registry, wheel, net>>
vars == <<db, cache, sessionUsers, connections, handler, timers, now, received, hist,
          side, lastBroadcast>>

\* ------------------------------------------------------------ pure helpers
RECURSIVE SeqSum(_, _)
SeqSum(f, S) == IF S = {} THEN 0
                ELSE LET x == CHOOSE y \in S : TRUE IN f[x] + SeqSum(f, S \ {x})

GameNames(gs) == {gs.selectedGames[i].name : i \in 1..Len(gs.selectedGames)}

\* selectedGames.find(g => g.name === name)
HasGame(gs, name) == \E i \in 1..Len(gs.selectedGames) : gs.selectedGames[i].name = name

FindGame(gs, name) ==
    LET i == CHOOSE j \in 1..Len(gs.selectedGames) :
                 /\ gs.selectedGames[j].name = name
                 /\ \A k \in 1..(j-1) : gs.selectedGames[k].name # name
    IN gs.selectedGames[i]

\* selectedGames.filter(game => game.name !== name)
FilterOut(games, name) == SelectSeq(games, LAMBDA g : g.name # name)

\* [...selectedGames].sort((a, b) => a.name.localeCompare(b.name))
RECURSIVE SortByName(_)
SortByName(games) ==
    IF Len(games) = 0 THEN << >>
    ELSE LET m == CHOOSE i \in 1..Len(games) :
                      \A j \in 1..Len(games) :
                          \/ NameRank[games[i].name] < NameRank[games[j].name]
                          \/ (NameRank[games[i].name] = NameRank[games[j].name] /\ i <= j)
             rest == [k \in 1..(Len(games)-1) |-> IF k < m THEN games[k] ELSE games[k+1]]
         IN <<games[m]>> \o SortByName(rest)

\* gameState = (await getCachedSessionState(id)) || session.game_state
ReadState(session) == IF cache.present THEN cache.state ELSE session

\* ------------------------------------------------------------- rotation
\* Angles of a wheel of n games are integers in units of pi / (2n): pi / 2 is n
\* units and 2 pi is 4n units, so that 2 pi / n is 4 units exactly.
PiHalf(n) == n
TwoPi(n) == 4 * n

\* const anglePerSection = (2 * Math.PI) / games.length
AnglePerSection(n) == TwoPi(n) \div n

\* baseRotation = -Math.PI / 2 - winningIndex * anglePerSection - anglePerSection / 2
\* (mutant: the half sector is left out)
BaseRotation_NoHalfSector(n, winningIndex) ==
    (0 - PiHalf(n)) - winningIndex * AnglePerSection(n)

BaseRotation(n, winningIndex) ==
    (0 - PiHalf(n)) - winningIndex * AnglePerSection(n) - AnglePerSection(n) \div 2

\* Math.floor(10 + Math.random() * 5), r being Math.floor(Math.random() * 5)
NumExtraRotations(r) == 10 + r

\* finalRotation = baseRotation + numExtraRotations * 2 * Math.PI
FinalRotation(n, baseRotation, numExtraRotations) ==
    baseRotation + numExtraRotations * TwoPi(n)

\* SpinningWheel.jsx: startAngle = index * anglePerSection + rotationRef.current,
\* and the sector's middle is startAngle + anglePerSection / 2
SectorMiddle(n, index, rotation) ==
    index * AnglePerSection(n) + rotation + AnglePerSection(n) \div 2

NoWheel == [n |-> 0, winningIndex |-> 0, baseRotation |-> 0, finalRotation |-> 0]

\* The session's wheels have up to Cardinality(Names) sectors; their angles are
\* brought to one unit, pi / (2 * WheelUnit), that every sector count divides.
RECURSIVE Factorial(_)
Factorial(n) == IF n <= 1 THEN 1 ELSE n * Factorial(n - 1)

WheelUnit == Factorial(Cardinality(Names))

CommonRotation(n, rotation) == rotation * (WheelUnit \div n)

\* The games whose sector, on the client's wheel of the (sorted) games turned by
\* rotation, lies under the pointer at -pi/2; a pointer on the line between two
\* sectors counts for both. A wheel without games is not drawn.
UnderPointer(games, rotation) ==
    LET n == Len(games)
        turn == 4 * WheelUnit
        angle == turn \div n
        offset(index) == ((0 - WheelUnit) - (index * angle + rotation) + 4 * turn) % turn
    IN IF n = 0 THEN {}
       ELSE {games[index + 1] : index \in {k \in 0..(n - 1) : offset(k) <= angle}}

\* ---------------------------------------------- the synchronous mutations
\* case 'add_game'
\* (mutant: the find() test for an entry of the same name left out)
AddGameOutcome_NoDuplicateCheck(gs, user, name) ==
    IF gs.gameLimit # 0 /\ gs.userGameCounts[user] >= gs.gameLimit THEN "limit"
    ELSE "accepted"

\* (mutant: the test of the member's count against gameLimit left out)
AddGameOutcome_NoLimitCheck(gs, user, name) ==
    IF HasGame(gs, name) THEN "duplicate" ELSE "accepted"

AddGameOutcome(gs, user, name) ==
    IF HasGame(gs, name) THEN "duplicate"
    ELSE IF gs.gameLimit # 0 /\ gs.userGameCounts[user] >= gs.gameLimit THEN "limit"
    ELSE "accepted"

\* (mutant: the entry is put in front of the list)
AddGame_Prepends(gs, user, name) ==
    [gs EXCEPT !.selectedGames = <<[name |-> name, addedBy |-> user]>> \o @,
               !.userGameCounts[user] = @ + 1]

AddGame(gs, user, name) ==
    [gs EXCEPT !.selectedGames = Append(@, [name |-> name, addedBy |-> user]),
               !.userGameCounts[user] = @ + 1]

\* case 'remove_game'
\* (mutant: the adder's count is not decremented)
RemoveGame_NoDecrement(gs, name) ==
    [gs EXCEPT !.selectedGames = FilterOut(@, name)]

\* (mutant: every member's count is decremented)
RemoveGame_DecrementsAll(gs, name) ==
    [gs EXCEPT !.userGameCounts = [u \in Users |-> IF @[u] > 0 THEN @[u] - 1 ELSE 0],
               !.selectedGames = FilterOut(@, name)]

RemoveGame(gs, name) ==
    LET counts == IF HasGame(gs, name)
                     /\ FindGame(gs, name).addedBy # ""
                     /\ gs.userGameCounts[FindGame(gs, name).addedBy] > 0
                  THEN [gs.userGameCounts EXCEPT ![FindGame(gs, name).addedBy] = @ - 1]
                  ELSE gs.userGameCounts
    IN [gs EXCEPT !.userGameCounts = counts,
                  !.selectedGames = FilterOut(@, name)]

\* case 'clear_all_games'
\* (mutant: spinData is not reset)
ClearAllGames_KeepsSpinData(gs) ==
    [gs EXCEPT !.selectedGames = << >>,
               !.winner = NullGame,
               !.isSpinning = FALSE,
               !.userGameCounts = [u \in Users |-> 0]]

\* (mutant: userGameCounts is not reset)
ClearAllGames_KeepsCounts(gs) ==
    [gs EXCEPT !.selectedGames = << >>,
               !.winner = NullGame,
               !.isSpinning = FALSE,
               !.spinData = NullSpin]

ClearAllGames(gs) ==
    [gs EXCEPT !.selectedGames = << >>,
               !.winner = NullGame,
               !.isSpinning = FALSE,
               !.spinData = NullSpin,
               !.userGameCounts = [u \in Users |-> 0]]

\* case 'start_spin', with winningIndex = Math.floor(Math.random() * games.length)
\* (0-based) and startTime = Date.now(). Of spinData's rotations baseRotation is
\* kept; finalRotation is it plus whole turns.
StartSpin(gs, winningIndex, startTime) ==
    LET games == SortByName(gs.selectedGames)
        preCalculatedWinner == IF Len(games) > 0 THEN games[winningIndex + 1] ELSE NullGame
        baseRotation == IF Len(games) > 0
                        THEN CommonRotation(Len(games), BaseRotation(Len(games), winningIndex))
                        ELSE 0
    IN [gs EXCEPT !.isSpinning = TRUE,
                  !.winner = NullGame,
                  !.spinData = [isNull |-> FALSE, startTime |-> startTime,
                                baseRotation |-> baseRotation,
                                preCalculatedWinner |-> preCalculatedWinner]]

\* the setTimeout callback's test and update
SpinToComplete(gs) == gs.isSpinning /\ ~gs.spinData.isNull

\* (mutant: the winner is set but the spin is left in progress)
CompleteSpin_StillSpinning(gs) ==
    [gs EXCEPT !.winner = gs.spinData.preCalculatedWinner]

CompleteSpin(gs) ==
    [gs EXCEPT !.isSpinning = FALSE,
               !.winner = gs.spinData.preCalculatedWinner,
               !.spinData = NullSpin]

\* one run of the callback's completion step on the state it read: the state
\* it leaves stored
CompletionStep(gs) == IF SpinToComplete(gs) THEN CompleteSpin(gs) ELSE gs

\* case 'set_game_limit'
SetGameLimit(gs, limit) == [gs EXCEPT !.gameLimit = limit]

\* sessionUsers.length > 0 && sessionUsers[0].user_id === currentUserId
\* (mutant: any member of a session that has members passes)
IsCreator_AnyMember(users, user) == Len(users) > 0

IsCreator(users, user) == Len(users) > 0 /\ users[1] = user

\* ------------------------------------------------------------------- state
\* A handler invocation: its position (the await it is suspended on) and the
\* locals it still uses.  op is the game_action's action, or "set_game_limit".
\* sawSpin (history) is the spin a clear_all_games found in progress.
IdleHandler ==
    [pc |-> "idle", op |-> "", user |-> "", name |-> "", limit |-> 0,
     session |-> DefaultGameState, gameState |-> DefaultGameState, sawSpin |-> 0]

\* A setTimeout callback.  History: completedSpin is the spin (startTime) whose
\* completion it stored, afterClear whether it ran after a clear_all_games
\* that found its spin in progress had finished.
UnsetTimer ==
    [pc |-> "unset", session |-> DefaultGameState, gameState |-> DefaultGameState,
     hasWinner |-> FALSE, completedSpin |-> 0, afterClear |-> FALSE]

\* No request dropped yet; Dropped(kind) is a request dropped with no reply,
\* LimitReply(limit) one answered with the error
\* `You can only submit ${gameState.gameLimit} game(s).`
NoneDropped == [kind |-> "none", reply |-> "", limit |-> 0]
Dropped(kind) == [kind |-> kind, reply |-> "", limit |-> 0]
LimitReply(limit) == [kind |-> "limit", reply |-> "You can only submit", limit |-> limit]

\* a request ended by an error reply: ws.send({type: 'error', message})
ErrorReply(kind, message) == [kind |-> kind, reply |-> message, limit |-> 0]

\* getSession: SELECT .. WHERE id = $1 AND expires_at > NOW(); rows[0] || null
\* (mutant: the expires_at test is left out)
SessionFound_IgnoresExpiry(isExpired) == TRUE

SessionFound(isExpired) == ~isExpired

\* publishSessionUpdate tags an event with process.env.SERVER_ID || 'default'
PublishedServerId(id) == IF id = "" THEN "default" ELSE id

\* the subscriber's test `update.serverId === process.env.SERVER_ID` on an
\* event this instance published (an unset variable is undefined, which no
\* published tag equals)
OwnEventSkipped(id) == id # "" /\ PublishedServerId(id) = id

\* copies of one event that a local connection gets: one from
\* broadcastToSession and, unless the subscriber skips the instance's own
\* event, one more from the subscriber callback
Deliveries(id) == 1 + (IF OwnEventSkipped(id) THEN 0 ELSE 1)

\* No broadcastToSession of a game state yet; Broadcast(..) is the call's
\* outcome: with no entry for the session in the connections map it returns
\* before it sends or publishes
NoBroadcast ==
    [made |-> FALSE, state |-> DefaultGameState, copies |-> 0, published |-> FALSE]

Broadcast(conns, id, gs) ==
    IF conns = {}
    THEN [made |-> TRUE, state |-> gs, copies |-> 0, published |-> FALSE]
    ELSE [made |-> TRUE, state |-> gs, copies |-> Deliveries(id), published |-> TRUE]

\* ---------------------------------------------------------- rate limiter
\* checkRateLimit(key, limit, window): incr(key), expire on the first
\* increment, and `current <= limit`; current is the key's value after incr
CheckRateLimit(current, limit) == current <= limit

\* counters[t] is the value of the key rate_limit:<address>:<t> of the one
\* source modelled (the key ends in Date.now()); inWindow (history) is the
\* number of its messages so far, verdict what the last one got
NoLimiter ==
    [clock |-> 0, counters |-> [t \in 0..MaxClock |-> 0], inWindow |-> 0, verdict |-> "none"]

\* ------------------------------------------------------- session registry
\* rows: ids with a row in the sessions table; local: ids that are keys of this
\* instance's connections map; reply: what the last create_session got
NoRegistry == [rows |-> {}, local |-> {}, reply |-> [type |-> "none", id |-> 0]]

\* -------------------------------------------- connections and instances
\* the instance a connection is made to
InstanceOf(c) == IF c < MaxConns THEN 1 ELSE 2

\* wss.on('connection'): the closure variables currentSessionId and
\* currentUserId (null: ""); closePc is the position of the 'close' handler;
\* lateJoin (history): a join_session handler registered it after it closed
NewConn ==
    [open |-> TRUE, sessionId |-> "", userId |-> "", closePc |-> "none", lateJoin |-> FALSE]

\* a message handler invocation on connection conn: origin (history) is the
\* connection's currentSessionId when the message arrived, sessionId the
\* argument of the call it is suspended in
NoTask ==
    [pc |-> "idle", conn |-> 0, op |-> "", sessionId |-> "", userId |-> "", name |-> "",
     origin |-> "", row |-> DefaultGameState, gameState |-> DefaultGameState]

\* the setTimeout callback of a connection's start_spin
NoNetTimer ==
    [pc |-> "unset", origin |-> "", sessionId |-> "", row |-> DefaultGameState,
     gameState |-> DefaultGameState]

\* history: the last user_left broadcast (who got it, which open connections
\* were registered for the session on any instance, and which of those had
\* joined with the closed connection's member id) and the last
\* kick_user of a creator naming another member with an open connection
NoLeft ==
    [conn |-> 0, sessionId |-> "", userId |-> "", users |-> << >>, recipients |-> {},
     registered |-> {}, sameUser |-> {}]
NoKick == [made |-> FALSE, target |-> "", delivered |-> FALSE]

\* map: each instance's connections map, sessionId -> userId -> ws (0: no
\* entry); members: the session_users rows ordered by joined_at; store: the
\* sessions' game_state rows and cached states; joins and actions count the
\* join_session and the other messages received
NoNet ==
    [conn    |-> [c \in Conns |-> NewConn],
     map     |-> [i \in Instances |-> [s \in NetSessions |-> [u \in Users |-> 0]]],
     members |-> [s \in NetSessions |-> << >>],
     store   |-> [s \in NetSessions |-> [db |-> DefaultGameState, cache |-> NoCache]],
     task    |-> [t \in NetSlots |-> NoTask],
     timer   |-> [c \in Conns |-> NoNetTimer],
     left    |-> NoLeft,
     kick    |-> NoKick,
     joins   |-> 0,
     actions |-> 0]

\* the connections in an instance's map entry of a session
Registered(i, s) == {net.map[i][s][u] : u \in Users} \ {0}

\* broadcastToSession(s, ..) on instance i: without a map entry for the session
\* it returns; else it sends to the local connections whose readyState is
\* open and publishes, and the other instances' subscribers send to theirs
Recipients(i, s) ==
    IF Registered(i, s) = {} THEN {}
    ELSE {c \in UNION {Registered(j, s) : j \in Instances} : net.conn[c].open}

InFlight(h) == handler[h].pc # "idle"

\* invocations are interchangeable: a new one takes the first free slot
FreeSlot(h) == ~InFlight(h) /\ \A g \in Handlers : g < h => InFlight(g)

\* createSession(sessionId): the row's game_state column default, nothing
\* cached; then A and after A, B have joined (join_session)
Init ==
    /\ db = DefaultGameState
    /\ cache = NoCache
    /\ sessionUsers = <<"A", "B">>
    /\ connections = {"A", "B"}
    /\ handler = [h \in Handlers |-> IdleHandler]
    /\ timers = [i \in 1..MaxSpins |-> UnsetTimer]
    /\ now = 0
    /\ received = 0
    /\ cleared = {}
    /\ clearedDone = {}
    /\ dropped = NoneDropped
    /\ spinCompleted = FALSE
    /\ serverId \in ServerIds
    /\ lastBroadcast = NoBroadcast
    /\ expired = FALSE
    /\ limiter = NoLimiter
    /\ registry = NoRegistry
    /\ wheel = NoWheel
    /\ net = NoNet

\* the cached state's TTL (setEx ... 300) runs out
CacheExpire ==
    /\ cache.present
    /\ cache' = NoCache
    /\ UNCHANGED <<side, lastBroadcast, db, sessionUsers, connections, handler, timers, now, received, hist>>

\* ----------------------------------------------------- game_action handler
\* start_spin computations still to come from handlers in flight
PendingSpins ==
    Cardinality({h \in Handlers : handler[h].pc = "getCached" /\ handler[h].op = "start_spin"})

\* A game_action arrives from a joined connection (currentSessionId is set) and
\* runs to `const session = await getSession(currentSessionId)`.
\* currentUserId is used by add_game alone.
ReceiveGameAction(h, u, action, name) ==
    /\ FreeSlot(h)
    /\ u \in connections
    /\ action = "start_spin" => now + PendingSpins < MaxSpins
    /\ handler' = [handler EXCEPT ![h] =
                     IF SessionFound(expired)
                     THEN [IdleHandler EXCEPT !.pc = "getCached", !.op = action,
                                              !.user = IF action = "add_game" THEN u ELSE "",
                                              !.name = name, !.session = db]
                     ELSE IdleHandler]
    /\ dropped' = IF SessionFound(expired) THEN dropped
                  ELSE ErrorReply("notfound", "Session not found")
    /\ received' = received + 1
    /\ UNCHANGED <<side, lastBroadcast, db, cache, sessionUsers, connections, timers, now,
                   cleared, clearedDone, spinCompleted>>

\* let gameState = await getCachedSessionState(..) || session.game_state, then
\* the switch on the action up to its next await
GetCachedAddGame(h) ==
    LET rec == handler[h]
        gs == ReadState(rec.session)
    IN /\ rec.pc = "getCached" /\ rec.op = "add_game"
       /\ handler' = [handler EXCEPT ![h] =
                        IF AddGameOutcome(gs, rec.user, rec.name) = "accepted"
                        THEN [rec EXCEPT !.pc = "updateDB", !.session = DefaultGameState,
                                         !.gameState = AddGame(gs, rec.user, rec.name)]
                        ELSE IdleHandler]
       /\ dropped' = CASE AddGameOutcome(gs, rec.user, rec.name) = "accepted" -> dropped
                        [] AddGameOutcome(gs, rec.user, rec.name) = "limit" ->
                               LimitReply(gs.gameLimit)
                        [] OTHER -> Dropped("duplicate")
       /\ UNCHANGED <<side, lastBroadcast, db, cache, sessionUsers, connections, timers, now, received,
                      cleared, clearedDone, spinCompleted>>

GetCachedRemoveGame(h) ==
    LET rec == handler[h]
        gs == ReadState(rec.session)
    IN /\ rec.pc = "getCached" /\ rec.op = "remove_game"
       /\ handler' = [handler EXCEPT ![h] =
                        [rec EXCEPT !.pc = "updateDB", !.session = DefaultGameState,
                                    !.gameState = RemoveGame(gs, rec.name)]]
       /\ UNCHANGED <<side, lastBroadcast, db, cache, sessionUsers, connections, timers, now, received, hist>>

GetCachedClearAllGames(h) ==
    LET rec == handler[h]
        gs == ReadState(rec.session)
    IN /\ rec.pc = "getCached" /\ rec.op = "clear_all_games"
       /\ handler' = [handler EXCEPT ![h] =
                        [rec EXCEPT !.pc = "updateDB", !.session = DefaultGameState,
                                    !.gameState = ClearAllGames(gs),
                                    !.sawSpin = IF SpinToComplete(gs)
                                                THEN gs.spinData.startTime ELSE 0]]
       /\ UNCHANGED <<side, lastBroadcast, db, cache, sessionUsers, connections, timers, now, received, hist>>

GetCachedStartSpin(h) ==
    LET rec == handler[h]
        gs == ReadState(rec.session)
        n == Len(gs.selectedGames)
    IN /\ rec.pc = "getCached" /\ rec.op = "start_spin"
       /\ IF gs.isSpinning
          THEN /\ handler' = [handler EXCEPT ![h] = IdleHandler]
               /\ now' = now
               /\ dropped' = Dropped("spinning")
          ELSE /\ now' = now + 1
               /\ dropped' = dropped
               /\ \E winningIndex \in 0..(IF n > 0 THEN n - 1 ELSE 0) :
                    handler' = [handler EXCEPT ![h] =
                        [rec EXCEPT !.pc = "updateDB", !.session = DefaultGameState,
                                    !.gameState = StartSpin(gs, winningIndex, now + 1)]]
       /\ UNCHANGED <<side, lastBroadcast, db, cache, sessionUsers, connections, timers, received,
                      cleared, clearedDone, spinCompleted>>

\* ------------------------------------------------- set_game_limit handler
\* A set_game_limit arrives and runs to `await getSessionUsers(..)`; a
\* requester who is not the creator ends there.
ReceiveSetGameLimit(h, u, limit) ==
    /\ FreeSlot(h)
    /\ u \in connections
    /\ handler' = [handler EXCEPT ![h] =
                     IF IsCreator(sessionUsers, u)
                     THEN [IdleHandler EXCEPT !.pc = "getSession", !.op = "set_game_limit",
                                              !.limit = limit]
                     ELSE IdleHandler]
    /\ dropped' = IF IsCreator(sessionUsers, u) THEN dropped ELSE Dropped("denied")
    /\ received' = received + 1
    /\ UNCHANGED <<side, lastBroadcast, db, cache, sessionUsers, connections, timers, now,
                   cleared, clearedDone, spinCompleted>>

\* const session = await getSession(currentSessionId); `if (session)` has no
\* else branch
GetSession(h) ==
    /\ handler[h].pc = "getSession"
    /\ handler' = [handler EXCEPT ![h] =
                     IF SessionFound(expired)
                     THEN [@ EXCEPT !.pc = "getCached", !.session = db]
                     ELSE IdleHandler]
    /\ dropped' = IF SessionFound(expired) THEN dropped ELSE Dropped("notfound")
    /\ UNCHANGED <<side, lastBroadcast, db, cache, sessionUsers, connections, timers, now, received,
                   cleared, clearedDone, spinCompleted>>

GetCachedSetGameLimit(h) ==
    LET rec == handler[h]
        gs == ReadState(rec.session)
    IN /\ rec.pc = "getCached" /\ rec.op = "set_game_limit"
       /\ handler' = [handler EXCEPT ![h] =
                        [rec EXCEPT !.pc = "updateDB", !.session = DefaultGameState,
                                    !.gameState = SetGameLimit(gs, rec.limit)]]
       /\ UNCHANGED <<side, lastBroadcast, db, cache, sessionUsers, connections, timers, now, received, hist>>

\* --------------------------------------------------- join_session handler
\* A join_session for this session arrives on a connection that has not
\* joined and runs to `const session = await getSession(sessionId)`.
ReceiveJoinSession(h, u) ==
    /\ FreeSlot(h)
    /\ u \notin connections
    /\ handler' = [handler EXCEPT ![h] =
                     IF SessionFound(expired)
                     THEN [IdleHandler EXCEPT !.pc = "addUser", !.op = "join_session",
                                              !.user = u, !.session = db]
                     ELSE IdleHandler]
    /\ dropped' = IF SessionFound(expired) THEN dropped
                  ELSE ErrorReply("notfound", "Session not found or expired")
    /\ UNCHANGED <<side, lastBroadcast, db, cache, sessionUsers, connections, timers, now, received,
                   cleared, clearedDone, spinCompleted>>

\* await addUserToSession(..) (ON CONFLICT keeps the row and its joined_at),
\* then connections.get(sessionId).set(userId, ws)
JoinAddUser(h) ==
    LET rec == handler[h]
    IN /\ rec.pc = "addUser"
       /\ sessionUsers' = IF \E i \in 1..Len(sessionUsers) : sessionUsers[i] = rec.user
                          THEN sessionUsers ELSE Append(sessionUsers, rec.user)
       /\ connections' = connections \cup {rec.user}
       /\ handler' = [handler EXCEPT ![h].pc = "getCached"]
       /\ UNCHANGED <<side, lastBroadcast, db, cache, timers, now, received, hist>>

\* const gameState = await getCachedSessionState(sessionId) || session.game_state
GetCachedJoin(h) ==
    LET rec == handler[h]
    IN /\ rec.pc = "getCached" /\ rec.op = "join_session"
       /\ handler' = [handler EXCEPT ![h] =
                        [rec EXCEPT !.pc = "sendJoined", !.session = DefaultGameState,
                                    !.gameState = ReadState(rec.session)]]
       /\ UNCHANGED <<side, lastBroadcast, db, cache, sessionUsers, connections, timers, now, received, hist>>

\* ws.send of session_joined with gameState, then the user_joined broadcast
SendJoined(h) ==
    /\ handler[h].pc = "sendJoined"
    /\ handler' = [handler EXCEPT ![h] = IdleHandler]
    /\ UNCHANGED <<side, lastBroadcast, db, cache, sessionUsers, connections, timers, now, received, hist>>

\* ------------------------------------------------------ kick_user handler
\* A kick_user arrives and runs through `await getSessionUsers(..)` to its end:
\* the creator, naming another member that has a connection here, has that
\* connection closed, whose 'close' handler deletes it from the map.
ReceiveKickUser(u, userToKick) ==
    /\ u \in connections
    /\ connections' = IF IsCreator(sessionUsers, u) /\ userToKick # u
                      THEN connections \ {userToKick} ELSE connections
    /\ dropped' = IF IsCreator(sessionUsers, u) THEN dropped ELSE Dropped("denied")
    /\ received' = received + 1
    /\ UNCHANGED <<side, lastBroadcast, db, cache, sessionUsers, handler, timers, now,
                   cleared, clearedDone, spinCompleted>>

\* the 'close' handler of a closed connection resumes:
\* await removeUserFromSession(currentSessionId, currentUserId)
CloseRemoveUser(u) ==
    /\ u \notin connections
    /\ \E i \in 1..Len(sessionUsers) : sessionUsers[i] = u
    /\ sessionUsers' = SelectSeq(sessionUsers, LAMBDA m : m # u)
    /\ UNCHANGED <<side, lastBroadcast, db, cache, connections, handler, timers, now, received, hist>>

\* ------------------------------------------- updateGameStateAndBroadcast
\* await updateSessionGameState(sessionId, gameState)
UpdateDB(h) ==
    LET rec == handler[h]
    IN /\ rec.pc = "updateDB"
       /\ db' = rec.gameState
       /\ handler' = [handler EXCEPT ![h].pc = "cacheState"]
       /\ cleared' = IF rec.op = "clear_all_games" THEN cleared \cup (1..now) ELSE cleared
       /\ spinCompleted' = IF rec.op = "clear_all_games" THEN FALSE ELSE spinCompleted
       /\ UNCHANGED <<side, lastBroadcast, cache, sessionUsers, connections, timers, now, received,
                      clearedDone, dropped>>

\* await cacheSessionState(sessionId, gameState), then broadcastToSession and,
\* for start_spin, the setTimeout that follows it
CacheState(h) ==
    LET rec == handler[h]
    IN /\ rec.pc = "cacheState"
       /\ cache' = [present |-> TRUE, state |-> rec.gameState]
       /\ timers' = IF rec.op = "start_spin"
                    THEN [timers EXCEPT ![rec.gameState.spinData.startTime] =
                            [UnsetTimer EXCEPT
                               !.pc = "scheduled",
                               !.hasWinner =
                                   rec.gameState.spinData.preCalculatedWinner # NullGame]]
                    ELSE timers
       /\ handler' = [handler EXCEPT ![h] = IdleHandler]
       /\ cleared' = IF rec.op = "clear_all_games" THEN cleared \cup (1..now) ELSE cleared
       /\ clearedDone' = IF rec.op = "clear_all_games" /\ rec.sawSpin # 0
                         THEN clearedDone \cup {rec.sawSpin} ELSE clearedDone
       /\ lastBroadcast' = Broadcast(connections, serverId, rec.gameState)
       /\ UNCHANGED <<side, db, sessionUsers, connections, now, received, dropped, spinCompleted>>

\* ------------------------------------------------- spin completion timer
\* the callback runs: const currentSession = await getSession(..)
TimerFire(i) ==
    /\ timers[i].pc = "scheduled"
    /\ timers' = [timers EXCEPT ![i] =
                    IF SessionFound(expired)
                    THEN [@ EXCEPT !.pc = "getCached", !.session = db,
                                   !.afterClear = i \in clearedDone]
                    ELSE [@ EXCEPT !.pc = "noop"]]
    /\ UNCHANGED <<side, lastBroadcast, db, cache, sessionUsers, connections, handler, now, received, hist>>

\* currentGameState = cached || currentSession.game_state; the isSpinning test
TimerGetCached(i) ==
    LET gs == ReadState(timers[i].session)
    IN /\ timers[i].pc = "getCached"
       /\ timers' = [timers EXCEPT ![i] =
                       IF SpinToComplete(gs)
                       THEN [@ EXCEPT !.pc = "updateDB", !.session = DefaultGameState,
                                      !.gameState = CompleteSpin(gs),
                                      !.completedSpin = gs.spinData.startTime]
                       ELSE [@ EXCEPT !.pc = "noop", !.session = DefaultGameState]]
       /\ UNCHANGED <<side, lastBroadcast, db, cache, sessionUsers, connections, handler, now, received, hist>>

TimerUpdateDB(i) ==
    /\ timers[i].pc = "updateDB"
    /\ db' = timers[i].gameState
    /\ timers' = [timers EXCEPT ![i].pc = "cacheState"]
    /\ spinCompleted' = TRUE
    /\ UNCHANGED <<side, lastBroadcast, cache, sessionUsers, connections, handler, now, received,
                   cleared, clearedDone, dropped>>

\* cacheSessionState, then the broadcast of the completed state
TimerCacheState(i) ==
    /\ timers[i].pc = "cacheState"
    /\ cache' = [present |-> TRUE, state |-> timers[i].gameState]
    /\ timers' = [timers EXCEPT ![i].pc = "completed", ![i].gameState = DefaultGameState]
    /\ lastBroadcast' = Broadcast(connections, serverId, timers[i].gameState)
    /\ UNCHANGED <<side, db, sessionUsers, connections, handler, now, received, hist>>

\* --------------------------------------------------------- process restart
\* The server process stops and is started again: the handlers in flight, the
\* pending setTimeout callbacks and the connections map are gone; the durable
\* store and the cache are other processes and keep what they hold.
Restart ==
    /\ connections # {}
    /\ connections' = {}
    /\ handler' = [h \in Handlers |-> IdleHandler]
    /\ timers' = [i \in 1..MaxSpins |->
                    IF timers[i].pc \in {"scheduled", "getCached", "updateDB", "cacheState"}
                    THEN [UnsetTimer EXCEPT !.pc = "lost", !.hasWinner = timers[i].hasWinner]
                    ELSE timers[i]]
    /\ UNCHANGED <<side, lastBroadcast, db, cache, sessionUsers, now, received, hist>>

\* ------------------------------------------------------- connection close
\* A member's connection closes: the 'close' handler up to its first await
\* deletes the member from the connections map (and the session's entry with
\* its last member); CloseRemoveUser is the rest of it.
Close(u) ==
    /\ u \in connections
    /\ connections' = connections \ {u}
    /\ UNCHANGED <<side, lastBroadcast, db, cache, sessionUsers, handler, timers, now, received,
                   hist>>

\* ---------------------------------------------------------- session expiry
\* NOW() passes the row's expires_at
Expire ==
    /\ ~expired
    /\ expired' = TRUE
    /\ UNCHANGED <<serverId, limiter, registry, wheel, net, lastBroadcast, db, cache, sessionUsers,
                   connections, handler, timers, now, received, hist>>

\* ------------------------------------------------------- invalid messages
\* A message that JSON.parse rejects ("malformed") lands in the outer catch; one
\* whose type is none of the switch's cases ("unknown") falls through the
\* switch, which has no default.
ReceiveInvalid(kind) ==
    /\ dropped' = IF kind = "malformed"
                  THEN ErrorReply("malformed", "Invalid message format")
                  ELSE Dropped("unknown")
    /\ received' = received + 1
    /\ UNCHANGED <<side, lastBroadcast, db, cache, sessionUsers, connections, handler, timers, now,
                   cleared, clearedDone, spinCompleted>>

\* ------------------------------------------------------- store failures
\* What the requester gets after updateGameStateAndBroadcast caught a store's
\* error: game_action goes on to updateUserLastSeen and setUserPresence, whose
\* error (the store is still down) its catch answers; set_game_limit ends.
FailureReply(op, stillDown) ==
    IF op # "set_game_limit" /\ stillDown
    THEN ErrorReply("failed", "Failed to process action")
    ELSE Dropped("failed")

\* the setTimeout of start_spin follows updateGameStateAndBroadcast whatever
\* became of it
ScheduleTimer(rec) ==
    IF rec.op = "start_spin"
    THEN [timers EXCEPT ![rec.gameState.spinData.startTime] =
            [UnsetTimer EXCEPT
               !.pc = "scheduled",
               !.hasWinner = rec.gameState.spinData.preCalculatedWinner # NullGame]]
    ELSE timers

\* await updateSessionGameState(..) throws: the durable store is unreachable
UpdateDBFails(h, stillDown) ==
    LET rec == handler[h]
    IN /\ rec.pc = "updateDB"
       /\ handler' = [handler EXCEPT ![h] = IdleHandler]
       /\ timers' = ScheduleTimer(rec)
       /\ dropped' = FailureReply(rec.op, stillDown)
       /\ UNCHANGED <<side, lastBroadcast, db, cache, sessionUsers, connections, now, received,
                      cleared, clearedDone, spinCompleted>>

\* await cacheSessionState(..) throws: the cache is unreachable
CacheStateFails(h, stillDown) ==
    LET rec == handler[h]
    IN /\ rec.pc = "cacheState"
       /\ handler' = [handler EXCEPT ![h] = IdleHandler]
       /\ timers' = ScheduleTimer(rec)
       /\ dropped' = FailureReply(rec.op, stillDown)
       /\ UNCHANGED <<side, lastBroadcast, db, cache, sessionUsers, connections, now, received,
                      cleared, clearedDone, spinCompleted>>

\* ------------------------------------------------------------ rate limiter
\* Date.now() moves on by a millisecond
RateTick ==
    /\ limiter.clock < MaxClock
    /\ limiter' = [limiter EXCEPT !.clock = @ + 1]
    /\ UNCHANGED <<serverId, expired, registry, wheel, net, lastBroadcast, db, cache, sessionUsers,
                   connections, handler, timers, now, received, hist>>

\* a message of the source arrives: rateLimitKey, checkRateLimit(key, 100, 60)
RateMessage ==
    LET current == limiter.counters[limiter.clock] + 1
    IN /\ limiter.inWindow < MaxRateMessages
       /\ limiter' = [limiter EXCEPT
                        !.counters[limiter.clock] = current,
                        !.inWindow = @ + 1,
                        !.verdict = IF CheckRateLimit(current, RateLimit)
                                    THEN "admitted" ELSE "rejected"]
       /\ UNCHANGED <<serverId, expired, registry, wheel, net, lastBroadcast, db, cache, sessionUsers,
                      connections, handler, timers, now, received, hist>>

\* --------------------------------------------------------- create_session
\* generateSessionId draws until the id is no key of the connections map; then
\* createSession's INSERT, which a row of that id makes throw, and the catch's
\* 'Failed to create session'
CreateSession(id) ==
    /\ id \in SessionIds \ registry.local
    /\ registry' = IF id \in registry.rows
                   THEN [registry EXCEPT !.reply = [type |-> "error", id |-> 0]]
                   ELSE [registry EXCEPT !.rows = @ \cup {id},
                                         !.reply = [type |-> "session_created", id |-> id]]
    /\ UNCHANGED <<serverId, expired, limiter, wheel, net, lastBroadcast, db, cache, sessionUsers,
                   connections, handler, timers, now, received, hist>>

\* join_session of a session that has a row: connections.set(sessionId, new Map())
RegistryJoin(id) ==
    /\ id \in registry.rows \ registry.local
    /\ registry' = [registry EXCEPT !.local = @ \cup {id}]
    /\ UNCHANGED <<serverId, expired, limiter, wheel, net, lastBroadcast, db, cache, sessionUsers,
                   connections, handler, timers, now, received, hist>>

\* the last connection of a session closes: connections.delete(currentSessionId)
RegistryLeave(id) ==
    /\ id \in registry.local
    /\ registry' = [registry EXCEPT !.local = @ \ {id}]
    /\ UNCHANGED <<serverId, expired, limiter, wheel, net, lastBroadcast, db, cache, sessionUsers,
                   connections, handler, timers, now, received, hist>>

\* ---------------------------------------------------------------- rotation
\* the rotation computation of a start_spin on n games
SpinWheel(n, winningIndex, r) ==
    /\ wheel' = [n |-> n, winningIndex |-> winningIndex,
                 baseRotation |-> BaseRotation(n, winningIndex),
                 finalRotation |-> FinalRotation(n, BaseRotation(n, winningIndex),
                                                 NumExtraRotations(r))]
    /\ UNCHANGED <<serverId, expired, limiter, registry, net, lastBroadcast, db, cache, sessionUsers,
                   connections, handler, timers, now, received, hist>>

\* ------------------------------------------------ connections: join, close
\* everything but net
rest ==
    <<db, cache, sessionUsers, connections, handler, timers, now, received, hist,
      lastBroadcast, serverId, expired, limiter, registry, wheel>>

NetFreeSlot(t) ==
    net.task[t].pc = "idle" /\ \A g \in NetSlots : g < t => net.task[g].pc # "idle"

\* join_session {sessionId: s, userId: u} arrives on connection c and runs to
\* `await getSession(sessionId)`
NetReceiveJoin(t, c, s, u) ==
    /\ NetFreeSlot(t)
    /\ net.conn[c].open
    /\ net' = [net EXCEPT !.joins = @ + 1,
                          !.task[t] =
                  [NoTask EXCEPT !.pc = "addUser", !.conn = c, !.op = "join_session",
                                 !.sessionId = s, !.userId = u]]
    /\ UNCHANGED rest

\* await addUserToSession(..) (ON CONFLICT keeps the row), the entry in the
\* connections map, then currentSessionId = sessionId, currentUserId = userId;
\* the rest of the handler reads and sends
NetJoinRegister(t) ==
    LET rec == net.task[t]
        s == rec.sessionId
        u == rec.userId
    IN /\ rec.pc = "addUser"
       /\ net' = [net EXCEPT
                    !.task[t] = NoTask,
                    !.members[s] = IF \E k \in 1..Len(@) : @[k] = u THEN @ ELSE Append(@, u),
                    !.map[InstanceOf(rec.conn)][s][u] = rec.conn,
                    !.conn[rec.conn].sessionId = s,
                    !.conn[rec.conn].userId = u,
                    !.conn[rec.conn].lateJoin = @ \/ ~net.conn[rec.conn].open]
       /\ UNCHANGED rest

\* the connection c closes: what its 'close' handler does before its first
\* await, sessionConnections.delete(currentUserId)
ClosedConn(n, c) ==
    LET cn == n.conn[c]
    IN IF cn.sessionId = ""
       THEN [n EXCEPT !.conn[c].open = FALSE, !.conn[c].closePc = "done"]
       ELSE [n EXCEPT !.conn[c].open = FALSE, !.conn[c].closePc = "removeUser",
                      !.map[InstanceOf(c)][cn.sessionId][cn.userId] = 0]

NetClose(c) ==
    /\ net.conn[c].open
    /\ net' = ClosedConn(net, c)
    /\ UNCHANGED rest

\* await removeUserFromSession(currentSessionId, currentUserId)
NetCloseRemoveUser(c) ==
    LET cn == net.conn[c]
    IN /\ cn.closePc = "removeUser"
       /\ net' = [net EXCEPT
                    !.conn[c].closePc = "broadcast",
                    !.members[cn.sessionId] = SelectSeq(@, LAMBDA m : m # cn.userId)]
       /\ UNCHANGED rest

\* users = await getSessionUsers(..), cacheSessionUsers, and the user_left
\* broadcast
NetCloseBroadcast(c) ==
    LET cn == net.conn[c]
        s == cn.sessionId
    IN /\ cn.closePc = "broadcast"
       /\ net' = [net EXCEPT
                    !.conn[c].closePc = "done",
                    !.left = [conn |-> c, sessionId |-> s, userId |-> cn.userId,
                              users |-> net.members[s],
                              recipients |-> Recipients(InstanceOf(c), s),
                              registered |->
                                  {k \in UNION {Registered(j, s) : j \in Instances} :
                                      net.conn[k].open},
                              sameUser |->
                                  {k \in Conns \ {c} : /\ net.conn[k].sessionId = s
                                                        /\ net.conn[k].userId = cn.userId}]]
       /\ UNCHANGED rest

\* ------------------------------------------- connections: game_action
\* getCachedSessionState(s) || row, for a session of the connection model
NetReadState(s, row) ==
    IF net.store[s].cache.present THEN net.store[s].cache.state ELSE row

\* A game_action arrives on the joined connection c and runs to
\* `const session = await getSession(currentSessionId)`.
NetReceiveAction(t, c, op, name) ==
    LET s == net.conn[c].sessionId
    IN /\ NetFreeSlot(t)
       /\ net.conn[c].open /\ s # ""
       /\ op = "start_spin" => net.timer[c].pc = "unset"
       /\ net' = [net EXCEPT
                    !.actions = @ + 1,
                    !.task[t] = [NoTask EXCEPT !.pc = "getCached", !.conn = c, !.op = op,
                                               !.name = name, !.origin = s,
                                               !.row = net.store[s].db]]
       /\ UNCHANGED rest

\* `getCachedSessionState(currentSessionId) || session.game_state` with the
\* currentSessionId and currentUserId of now, the switch on the action, and the
\* call updateGameStateAndBroadcast(currentSessionId, gameState) up to its
\* first await
NetGetCachedAddGame(t) ==
    LET rec == net.task[t]
        s == net.conn[rec.conn].sessionId
        u == net.conn[rec.conn].userId
        gs == NetReadState(s, rec.row)
    IN /\ rec.pc = "getCached" /\ rec.op = "add_game"
       /\ net' = [net EXCEPT !.task[t] =
                    IF AddGameOutcome(gs, u, rec.name) = "accepted"
                    THEN [rec EXCEPT !.pc = "write", !.sessionId = s, !.row = DefaultGameState,
                                     !.gameState = AddGame(gs, u, rec.name)]
                    ELSE NoTask]
       /\ UNCHANGED rest

NetGetCachedStartSpin(t) ==
    LET rec == net.task[t]
        s == net.conn[rec.conn].sessionId
        gs == NetReadState(s, rec.row)
        n == Len(gs.selectedGames)
    IN /\ rec.pc = "getCached" /\ rec.op = "start_spin"
       /\ \E winningIndex \in 0..(IF n > 0 THEN n - 1 ELSE 0) :
            net' = [net EXCEPT !.task[t] =
                      IF gs.isSpinning THEN NoTask
                      ELSE [rec EXCEPT !.pc = "write", !.sessionId = s,
                                       !.row = DefaultGameState,
                                       !.gameState = StartSpin(gs, winningIndex, rec.conn)]]
       /\ UNCHANGED rest

\* updateSessionGameState(sessionId, ..) and cacheSessionState(sessionId, ..)
\* with the sessionId of the call, the broadcast, and for start_spin the
\* setTimeout
NetWrite(t) ==
    LET rec == net.task[t]
    IN /\ rec.pc = "write"
       /\ net' = [net EXCEPT
                    !.task[t] = NoTask,
                    !.store[rec.sessionId] =
                        [db |-> rec.gameState,
                         cache |-> [present |-> TRUE, state |-> rec.gameState]],
                    !.timer[rec.conn] =
                        IF rec.op = "start_spin"
                        THEN [NoNetTimer EXCEPT !.pc = "scheduled", !.origin = rec.origin]
                        ELSE @]
       /\ UNCHANGED rest

\* the setTimeout callback runs: await getSession(currentSessionId), with the
\* connection's currentSessionId of now
NetTimerFire(c) ==
    /\ net.timer[c].pc = "scheduled"
    /\ net' = [net EXCEPT !.timer[c].pc = "getCached",
                          !.timer[c].row = net.store[net.conn[c].sessionId].db]
    /\ UNCHANGED rest

\* getCachedSessionState(currentSessionId) || currentSession.game_state, the
\* isSpinning test, and the call updateGameStateAndBroadcast(currentSessionId, ..)
NetTimerGetCached(c) ==
    LET s == net.conn[c].sessionId
        gs == NetReadState(s, net.timer[c].row)
    IN /\ net.timer[c].pc = "getCached"
       /\ net' = [net EXCEPT !.timer[c] =
                    IF SpinToComplete(gs)
                    THEN [@ EXCEPT !.pc = "write", !.sessionId = s, !.row = DefaultGameState,
                                   !.gameState = CompleteSpin(gs)]
                    ELSE [@ EXCEPT !.pc = "noop", !.row = DefaultGameState]]
       /\ UNCHANGED rest

NetTimerWrite(c) ==
    LET rec == net.timer[c]
    IN /\ rec.pc = "write"
       /\ net' = [net EXCEPT
                    !.timer[c] = [rec EXCEPT !.pc = "completed", !.gameState = DefaultGameState],
                    !.store[rec.sessionId] =
                        [db |-> rec.gameState,
                         cache |-> [present |-> TRUE, state |-> rec.gameState]]]
       /\ UNCHANGED rest

\* kick_user {userId: target} arrives on the joined connection c and runs
\* through `await getSessionUsers(..)` to its end: the creator, naming another
\* member who has an entry in this instance's map, has that connection sent
\* 'kicked' and closed.
NetKick(c, target) ==
    LET cn == net.conn[c]
        s == cn.sessionId
        isCreator == Len(net.members[s]) > 0 /\ net.members[s][1] = cn.userId
        entry == net.map[InstanceOf(c)][s][target]
        found == isCreator /\ target # cn.userId /\ entry # 0
        kicked == [net EXCEPT
                     !.actions = @ + 1,
                     !.kick = IF /\ isCreator /\ target # cn.userId
                                 /\ \E k \in Conns : /\ net.conn[k].open
                                                      /\ net.conn[k].sessionId = s
                                                      /\ net.conn[k].userId = target
                              THEN [made |-> TRUE, target |-> target, delivered |-> found]
                              ELSE @]
    IN /\ cn.open /\ s # ""
       /\ net' = IF found /\ net.conn[entry].open THEN ClosedConn(kicked, entry) ELSE kicked
       /\ UNCHANGED rest

\* ------------------------------------------------------------ specifications
HandlerStep(h) ==
    \/ GetSession(h)
    \/ GetCachedAddGame(h)
    \/ GetCachedRemoveGame(h)
    \/ GetCachedClearAllGames(h)
    \/ GetCachedStartSpin(h)
    \/ GetCachedSetGameLimit(h)
    \/ UpdateDB(h)
    \/ CacheState(h)

TimerStep(i) ==
    \/ TimerFire(i)
    \/ TimerGetCached(i)
    \/ TimerUpdateDB(i)
    \/ TimerCacheState(i)

\* a message of any kind from either member
ReceiveAny(h) ==
    \E u \in Users :
        \/ \E name \in Names : ReceiveGameAction(h, u, "add_game", name)
        \/ \E name \in Names : ReceiveGameAction(h, u, "remove_game", name)
        \/ ReceiveGameAction(h, u, "clear_all_games", "")
        \/ ReceiveGameAction(h, u, "start_spin", "")
        \/ \E limit \in Limits : ReceiveSetGameLimit(h, u, limit)

\* Spec: every kind of message, handled with overlap.
Next ==
    \/ received < MaxMessages /\ \E h \in Handlers : ReceiveAny(h)
    \/ received < MaxMessages /\ \E u, userToKick \in Users : ReceiveKickUser(u, userToKick)
    \/ \E u \in Users : CloseRemoveUser(u)
    \/ \E h \in Handlers : HandlerStep(h)
    \/ \E i \in 1..MaxSpins : TimerStep(i)
    \/ CacheExpire

Spec == Init /\ [][Next]_vars

\* SeqSpec: longer runs in which a message arrives only when no handler is in
\* flight (the completion timers still run on their own).
SeqNext ==
    \/ /\ received < MaxSeqMessages
       /\ \A g \in Handlers : ~InFlight(g)
       /\ \E h \in Handlers : ReceiveAny(h)
    \/ \E h \in Handlers : HandlerStep(h)
    \/ \E i \in 1..MaxSpins : TimerStep(i)

SeqSpec == Init /\ [][SeqNext]_vars

\* SpinSpec: the spin life cycle with overlap: one member adds games, clears
\* and spins.
SpinNext ==
    \/ /\ received < MaxSpinMessages
       /\ \E h \in Handlers :
            \/ \E name \in Names : ReceiveGameAction(h, "A", "add_game", name)
            \/ ReceiveGameAction(h, "A", "clear_all_games", "")
            \/ ReceiveGameAction(h, "A", "start_spin", "")
    \/ \E h \in Handlers : GetCachedAddGame(h)
    \/ \E h \in Handlers : GetCachedClearAllGames(h)
    \/ \E h \in Handlers : GetCachedStartSpin(h)
    \/ \E h \in Handlers : UpdateDB(h)
    \/ \E h \in Handlers : CacheState(h)
    \/ \E i \in 1..MaxSpins : TimerStep(i)

SpinSpec == Init /\ [][SpinNext]_vars

\* RestartSpec: one member adds a game and spins, the process may restart, and
\* the member joins again.
RestartNext ==
    \/ /\ received < MaxRestartMessages
       /\ \E h \in Handlers :
            \/ ReceiveGameAction(h, "A", "add_game", "Chess")
            \/ ReceiveGameAction(h, "A", "start_spin", "")
    \/ \E h \in Handlers : ReceiveJoinSession(h, "A")
    \/ \E h \in Handlers : JoinAddUser(h)
    \/ \E h \in Handlers : GetCachedJoin(h)
    \/ \E h \in Handlers : SendJoined(h)
    \/ \E h \in Handlers : GetCachedAddGame(h)
    \/ \E h \in Handlers : GetCachedStartSpin(h)
    \/ \E h \in Handlers : UpdateDB(h)
    \/ \E h \in Handlers : CacheState(h)
    \/ \E i \in 1..MaxSpins : TimerStep(i)
    \/ Restart

RestartSpec == Init /\ [][RestartNext]_vars

\* EditSpec: the members add and remove games and the creator sets limits,
\* with overlap; nobody spins.
EditNext ==
    \/ /\ received < MaxEditMessages
       /\ \E h \in Handlers :
            \/ \E u \in Users, name \in Names : ReceiveGameAction(h, u, "add_game", name)
            \/ \E name \in Names : ReceiveGameAction(h, "A", "remove_game", name)
            \/ \E limit \in Limits : ReceiveSetGameLimit(h, "A", limit)
    \/ \E h \in Handlers : GetSession(h)
    \/ \E h \in Handlers : GetCachedAddGame(h)
    \/ \E h \in Handlers : GetCachedRemoveGame(h)
    \/ \E h \in Handlers : GetCachedSetGameLimit(h)
    \/ \E h \in Handlers : UpdateDB(h)
    \/ \E h \in Handlers : CacheState(h)

EditSpec == Init /\ [][EditNext]_vars

\* FaultSpec: members add a game and the creator sets limits while connections
\* close, the stores fail and invalid messages arrive.
FaultNext ==
    \/ /\ received < MaxFaultMessages
       /\ \E h \in Handlers :
            \/ \E u \in Users : ReceiveGameAction(h, u, "add_game", "Chess")
            \/ \E limit \in Limits : ReceiveSetGameLimit(h, "A", limit)
    \/ received < MaxFaultMessages /\ \E kind \in {"malformed", "unknown"} : ReceiveInvalid(kind)
    \/ \E u \in Users : Close(u)
    \/ \E u \in Users : CloseRemoveUser(u)
    \/ \E h \in Handlers : GetSession(h)
    \/ \E h \in Handlers : GetCachedAddGame(h)
    \/ \E h \in Handlers : GetCachedSetGameLimit(h)
    \/ \E h \in Handlers : UpdateDB(h)
    \/ \E h \in Handlers : CacheState(h)
    \/ \E h \in Handlers, stillDown \in BOOLEAN : UpdateDBFails(h, stillDown)
    \/ \E h \in Handlers, stillDown \in BOOLEAN : CacheStateFails(h, stillDown)

FaultSpec == Init /\ [][FaultNext]_vars

\* ExpirySpec: members add a game, one of them leaves and joins again, and the
\* session expires.
ExpiryNext ==
    \/ /\ received < MaxExpiryMessages
       /\ \E h \in Handlers, u \in Users : ReceiveGameAction(h, u, "add_game", "Chess")
    \/ \E h \in Handlers : ReceiveJoinSession(h, "B")
    \/ \E h \in Handlers : JoinAddUser(h)
    \/ \E h \in Handlers : GetCachedJoin(h)
    \/ \E h \in Handlers : SendJoined(h)
    \/ Close("B")
    \/ CloseRemoveUser("B")
    \/ Expire
    \/ \E h \in Handlers : GetCachedAddGame(h)
    \/ \E h \in Handlers : UpdateDB(h)
    \/ \E h \in Handlers : CacheState(h)

ExpirySpec == Init /\ [][ExpiryNext]_vars

\* LinkSpec: connections to two instances join sessions, kick and close.
LinkNext ==
    \/ /\ net.joins < MaxJoins
       /\ \E t \in NetSlots, c \in Conns, s \in NetSessions, u \in Users :
            NetReceiveJoin(t, c, s, u)
    \/ \E t \in NetSlots : NetJoinRegister(t)
    \/ \E c \in Conns : NetClose(c)
    \/ \E c \in Conns : NetCloseRemoveUser(c)
    \/ \E c \in Conns : NetCloseBroadcast(c)
    \/ net.actions < MaxKicks /\ \E c \in Conns, target \in Users : NetKick(c, target)

LinkSpec == Init /\ [][LinkNext]_vars

\* HopSpec: two connections join sessions, change from one session to the
\* other, add a game and spin.
HopNext ==
    \/ /\ net.joins < MaxHopJoins
       /\ \E t \in NetSlots, s \in NetSessions :
            NetReceiveJoin(t, 1, s, "A") \/ NetReceiveJoin(t, 2, s, "B")
    \/ /\ net.actions < MaxHopActions
       /\ \E t \in NetSlots, c \in {1, 2} :
            NetReceiveAction(t, c, "add_game", "Chess") \/ NetReceiveAction(t, c, "start_spin", "")
    \/ \E t \in NetSlots : NetJoinRegister(t)
    \/ \E t \in NetSlots : NetGetCachedAddGame(t)
    \/ \E t \in NetSlots : NetGetCachedStartSpin(t)
    \/ \E t \in NetSlots : NetWrite(t)
    \/ \E c \in Conns : NetTimerFire(c)
    \/ \E c \in Conns : NetTimerGetCached(c)
    \/ \E c \in Conns : NetTimerWrite(c)

HopSpec == Init /\ [][HopNext]_vars

\* RateSpec: one source sends messages while the clock runs.
RateNext == RateTick \/ RateMessage

RateSpec == Init /\ [][RateNext]_vars

\* CreateSpec: sessions are created, joined and left.
CreateNext ==
    \/ \E id \in SessionIds : CreateSession(id)
    \/ \E id \in SessionIds : RegistryJoin(id)
    \/ \E id \in SessionIds : RegistryLeave(id)

CreateSpec == Init /\ [][CreateNext]_vars

\* WheelSpec: the rotation computation on every wheel, winner and random draw.
WheelNext ==
    \E n \in 1..MaxWheelGames, winningIndex \in 0..(MaxWheelGames - 1), r \in 0..4 :
        winningIndex < n /\ SpinWheel(n, winningIndex, r)

WheelSpec == Init /\ [][WheelNext]_vars

\* ------------------------------------------------------------------ claims
\* the game state in the durable store and, when present, in the cache
StoredStates == {db} \cup (IF cache.present THEN {cache.state} ELSE {})

\* the game states that handlers and timers are about to store and broadcast
PendingStates ==
    {handler[h].gameState : h \in {g \in Handlers : handler[g].pc \in {"updateDB", "cacheState"}}}
    \cup {timers[i].gameState : i \in {j \in 1..MaxSpins : timers[j].pc \in {"updateDB", "cacheState"}}}

KnownStates == StoredStates \cup PendingStates

Admitted(h, op) == handler[h].op = op /\ handler[h].pc \in {"updateDB", "cacheState"}

\* what the mutation of a handler that is about to write gives when it is
\* applied to the state gs (a start_spin keeps the spinData it has drawn)
Reapplied(rec, gs) ==
    CASE rec.op = "add_game" ->
             IF AddGameOutcome(gs, rec.user, rec.name) = "accepted"
             THEN AddGame(gs, rec.user, rec.name) ELSE gs
      [] rec.op = "remove_game" -> RemoveGame(gs, rec.name)
      [] rec.op = "clear_all_games" -> ClearAllGames(gs)
      [] rec.op = "set_game_limit" -> SetGameLimit(gs, rec.limit)
      [] rec.op = "start_spin" ->
             IF gs.isSpinning THEN gs
             ELSE [gs EXCEPT !.isSpinning = TRUE, !.winner = NullGame,
                             !.spinData = rec.gameState.spinData]

\* C1: in every stored state and in every state about to be stored, no two
\* entries of selectedGames have the same name (so an add_game of a name that
\* is present appends nothing), whatever messages were handled and however
\* their handling overlapped.
C1_DistinctNames ==
    \A gs \in KnownStates :
        \A i, j \in 1..Len(gs.selectedGames) :
            i # j => gs.selectedGames[i].name # gs.selectedGames[j].name

\* two add_game requests for one name were both admitted with overlap; one has
\* written the durable store and the other is about to
C1_Witness ==
    \E h1, h2 \in Handlers :
        /\ h1 # h2
        /\ Admitted(h1, "add_game") /\ Admitted(h2, "add_game")
        /\ handler[h1].name = handler[h2].name
        /\ handler[h1].pc = "cacheState" /\ handler[h2].pc = "updateDB"
        /\ HasGame(db, handler[h1].name)

\* C2: whenever gameLimit is set to L, every member's count in userGameCounts
\* is at most L.
C2_CountWithinLimit ==
    \A gs \in StoredStates :
        gs.gameLimit # 0 => \A u \in Users : gs.userGameCounts[u] <= gs.gameLimit

\* C3: in every stored state and every state about to be stored, the sum of
\* userGameCounts equals the number of entries whose addedBy is set.
C3_CountsMatchEntries ==
    \A gs \in KnownStates :
        SeqSum(gs.userGameCounts, Users) =
            Cardinality({i \in 1..Len(gs.selectedGames) : gs.selectedGames[i].addedBy # ""})

\* a remove_game has taken an attributed entry out of the durable store while
\* the cache still holds it
C3_Witness ==
    \E h \in Handlers :
        /\ handler[h].op = "remove_game" /\ handler[h].pc = "cacheState"
        /\ cache.present
        /\ Len(cache.state.selectedGames) = 1
        /\ SeqSum(cache.state.userGameCounts, Users) = 1
        /\ db.selectedGames = << >>

\* C4: mutations whose handling overlaps take effect as a total order, each
\* applied to the state the one before it left, so that no admitted mutation
\* is lost: the state a handler is about to store is its mutation applied to
\* the state that is stored now.
C4_TotalOrder ==
    \A h \in Handlers :
        handler[h].pc = "updateDB" =>
            handler[h].gameState = Reapplied(handler[h], ReadState(db))

\* C5: of two add_game requests for the same name from different members whose
\* handling overlaps, one is rejected as a duplicate: they are never both
\* admitted.
C5_OneRejected ==
    \A h1, h2 \in Handlers :
        (/\ h1 # h2
         /\ Admitted(h1, "add_game") /\ Admitted(h2, "add_game")
         /\ handler[h1].user # handler[h2].user)
        => handler[h1].name # handler[h2].name

\* C6: in every stored state and every state about to be stored, isSpinning is
\* true if and only if spinData is non-null.
C6_SpinFlagsAgree ==
    \A gs \in KnownStates : gs.isSpinning <=> ~gs.spinData.isNull

\* a spin was started on a game and its completion has been stored
C6_Witness ==
    \E i \in 1..MaxSpins :
        /\ timers[i].pc = "completed" /\ timers[i].completedSpin = i
        /\ ~db.isSpinning /\ db.spinData.isNull /\ db.winner # NullGame

\* C7: winner is non-null only if isSpinning is false and a spin has completed
\* since the last clear_all_games; winner is null while isSpinning is true; a
\* completion never stores a winner that is not a game.
C7_WinnerOnlyAfterCompletion ==
    /\ db.winner # NullGame => ~db.isSpinning /\ spinCompleted
    /\ \A gs \in StoredStates : gs.isSpinning => gs.winner = NullGame
    /\ \A i \in 1..MaxSpins :
         timers[i].pc \in {"updateDB", "cacheState"} => timers[i].gameState.winner # NullGame

\* C8: a spin started on at least one game, with no clear_all_games writing
\* after its start, has been completed with its stored winner by the time its
\* completion callback has run.
C8_SpinCompletes ==
    \A i \in 1..MaxSpins :
        (/\ timers[i].pc \in {"noop", "completed"}
         /\ timers[i].hasWinner
         /\ i \notin cleared)
        => \E j \in 1..MaxSpins : /\ timers[j].completedSpin = i
                                  /\ timers[j].pc \in {"cacheState", "completed"}

\* C9: the completion callback of a spin stores a completion only if the
\* current spinData is still that spin (stated for spins on at least one game).
C9_OnlyOwnSpin ==
    \A i \in 1..MaxSpins :
        (/\ timers[i].pc \in {"updateDB", "cacheState"}
         /\ timers[i].hasWinner
         /\ timers[i].gameState.winner # NullGame)
        => timers[i].completedSpin = i

\* C10: a clear_all_games stores the reset state, and when it was handled
\* while a spin (on at least one game) was in progress and no spin is started
\* afterwards, that spin's completion callback, running later, stores nothing.
C10_ClearedSpinStaysCleared ==
    /\ \A h \in Handlers :
         Admitted(h, "clear_all_games") =>
            /\ handler[h].gameState.selectedGames = << >>
            /\ ~handler[h].gameState.isSpinning
            /\ handler[h].gameState.spinData.isNull
            /\ handler[h].gameState.winner = NullGame
    /\ \A i \in 1..MaxSpins :
         (timers[i].afterClear /\ timers[i].hasWinner /\ now = i)
         => timers[i].pc \notin {"updateDB", "cacheState"}

\* C11: spin completion is idempotent: on every state the program stores, a
\* second run of the completion step finds no spin to complete (so it stores
\* and broadcasts nothing) and leaves the state of the first run as it is.
C11_CompletionIdempotent ==
    \A gs \in KnownStates :
        /\ ~SpinToComplete(CompletionStep(gs))
        /\ CompletionStep(CompletionStep(gs)) = CompletionStep(gs)

\* the completion step ran twice for spin s: another spin's callback stored
\* its completion, and its own callback then found nothing to do
C11_Witness ==
    \E s, j \in 1..MaxSpins :
        /\ j # s
        /\ timers[j].pc = "completed" /\ timers[j].completedSpin = s
        /\ timers[s].pc = "noop"
        /\ ~db.isSpinning /\ db.spinData.isNull

\* C12: once the process has restarted with a spin persisted and its
\* completion task gone, the next access to the session (join_session or
\* game_action) finalizes the spin before it serves state: no state served or
\* stored by such an access still has that spin (on at least one game) in
\* progress.
C12_NoStuckSpin ==
    \A h \in Handlers :
        (/\ handler[h].pc \in {"sendJoined", "updateDB", "cacheState"}
         /\ handler[h].op \in {"join_session", "add_game"}
         /\ handler[h].gameState.isSpinning
         /\ handler[h].gameState.spinData.preCalculatedWinner # NullGame)
        => timers[handler[h].gameState.spinData.startTime].pc # "lost"

\* C13: a start_spin on a session with no selected games is rejected: no
\* start_spin on an empty list gets as far as storing a spin, and no
\* completion task is scheduled for one.
C13_EmptySpinRejected ==
    /\ \A h \in Handlers :
         Admitted(h, "start_spin") => handler[h].gameState.selectedGames # << >>
    /\ \A i \in 1..MaxSpins : timers[i].pc = "scheduled" => timers[i].hasWinner

\* C14: a start_spin received while a spin is in progress is rejected, also
\* when two start_spin requests overlap: no start_spin (on at least one game)
\* is about to store its spinData over a stored spin (on at least one game)
\* that is in progress.
C14_OneSpinAtATime ==
    \A h \in Handlers :
        (/\ handler[h].pc = "updateDB" /\ handler[h].op = "start_spin"
         /\ handler[h].gameState.selectedGames # << >>)
        => ~(/\ ReadState(db).isSpinning
             /\ ReadState(db).spinData.preCalculatedWinner # NullGame)

\* C15: a kick_user or set_game_limit sent by a member who is not the earliest
\* joined current member changes nothing: the stored game state (gameLimit
\* included), the member list, the connections, the handlers in flight and the
\* scheduled tasks are as before, so nothing is stored or broadcast.
C15_NonCreatorChangesNothing ==
    [][(\E u \in Users :
          /\ (Len(sessionUsers) = 0 \/ sessionUsers[1] # u)
          /\ \/ \E h \in Handlers, limit \in Limits : ReceiveSetGameLimit(h, u, limit)
             \/ \E userToKick \in Users : ReceiveKickUser(u, userToKick))
       => UNCHANGED <<db, cache, sessionUsers, connections, handler, timers>>]_vars

\* a request of the member who is not the creator was dropped while games and
\* both connections were there to be changed
C15_Witness ==
    /\ dropped.kind = "denied"
    /\ connections = Users
    /\ sessionUsers = <<"A", "B">>
    /\ db.selectedGames # << >>

C17_DuplicateSurfaced ==
    /\ dropped.kind = "duplicate" => dropped.reply # ""
    /\ dropped.kind = "spinning" => dropped.reply = ""

\* C18: an accepted add_game by member M appends exactly one entry, with
\* addedBy = M, at the end of selectedGames, adds 1 to M's count, and leaves
\* the entries before it, the other counts, gameLimit, isSpinning, spinData
\* and winner as the handler read them.
C18_AddAppendsOne ==
    [][\A h \in Handlers :
         LET rec == handler[h]
             gs == ReadState(rec.session)
             post == handler'[h].gameState
             n == Len(gs.selectedGames)
         IN (rec.pc = "getCached" /\ rec.op = "add_game" /\ handler'[h].pc = "updateDB")
            => /\ Len(post.selectedGames) = n + 1
               /\ post.selectedGames[n + 1] = [name |-> rec.name, addedBy |-> rec.user]
               /\ SubSeq(post.selectedGames, 1, n) = gs.selectedGames
               /\ post.userGameCounts[rec.user] = gs.userGameCounts[rec.user] + 1
               /\ \A u \in Users \ {rec.user} :
                     post.userGameCounts[u] = gs.userGameCounts[u]
               /\ post.gameLimit = gs.gameLimit
               /\ post.isSpinning = gs.isSpinning
               /\ post.spinData = gs.spinData
               /\ post.winner = gs.winner]_vars

\* an add_game was accepted after another member's entry
C18_Witness ==
    \E h \in Handlers :
        /\ handler[h].pc = "updateDB" /\ handler[h].op = "add_game"
        /\ Len(handler[h].gameState.selectedGames) = 2
        /\ handler[h].gameState.selectedGames[1].addedBy # handler[h].user
        /\ handler[h].gameState.selectedGames[2].addedBy = handler[h].user
        /\ handler[h].gameState.userGameCounts = [u \in Users |-> 1]

\* C19: remove_game of a present name takes out exactly that entry,
\* decrements its adder's count by 1 but not below zero and leaves the other
\* entries, in their order, and the other counts as read; for a name that is
\* not present the game state is as read.
C19_RemoveExactlyOne ==
    [][\A h \in Handlers :
         LET rec == handler[h]
             gs == ReadState(rec.session)
             post == handler'[h].gameState
             n == Len(gs.selectedGames)
         IN (rec.pc = "getCached" /\ rec.op = "remove_game" /\ handler'[h].pc = "updateDB")
            => IF \E k \in 1..n : gs.selectedGames[k].name = rec.name
               THEN \E k \in 1..n :
                      LET adder == gs.selectedGames[k].addedBy
                      IN /\ gs.selectedGames[k].name = rec.name
                         /\ post.selectedGames = SubSeq(gs.selectedGames, 1, k - 1)
                                                   \o SubSeq(gs.selectedGames, k + 1, n)
                         /\ post.userGameCounts[adder] =
                               IF gs.userGameCounts[adder] > 0
                               THEN gs.userGameCounts[adder] - 1 ELSE 0
                         /\ \A u \in Users \ {adder} :
                               post.userGameCounts[u] = gs.userGameCounts[u]
               ELSE post = gs]_vars

\* the first of two entries by different members was removed
C19_Witness ==
    \E h \in Handlers :
        /\ handler[h].pc = "updateDB" /\ handler[h].op = "remove_game"
        /\ Len(db.selectedGames) = 2
        /\ db.selectedGames[1].name = handler[h].name
        /\ db.selectedGames[1].addedBy # db.selectedGames[2].addedBy
        /\ handler[h].gameState.selectedGames = <<db.selectedGames[2]>>
        /\ handler[h].gameState.userGameCounts[db.selectedGames[2].addedBy] = 1

\* C20: clear_all_games, from any state it reads, gives a state with no games,
\* no counts, winner null, isSpinning false and spinData null, with gameLimit
\* as read, and leaves the member list alone.
C20_ClearResets ==
    [][\A h \in Handlers :
         LET rec == handler[h]
             gs == ReadState(rec.session)
             post == handler'[h].gameState
         IN (rec.pc = "getCached" /\ rec.op = "clear_all_games"
             /\ handler'[h].pc = "updateDB")
            => /\ post.selectedGames = << >>
               /\ \A u \in Users : post.userGameCounts[u] = 0
               /\ post.winner = NullGame
               /\ ~post.isSpinning
               /\ post.spinData.isNull
               /\ post.gameLimit = gs.gameLimit
               /\ sessionUsers' = sessionUsers]_vars

\* a clear_all_games was handled while a spin was in progress
C20_Witness ==
    \E h \in Handlers :
        /\ handler[h].pc = "updateDB" /\ handler[h].op = "clear_all_games"
        /\ handler[h].sawSpin # 0
        /\ db.isSpinning /\ ~db.spinData.isNull
        /\ ~handler[h].gameState.isSpinning

\* C21: a mutation's state that updateGameStateAndBroadcast has stored and
\* handed to broadcastToSession has been sent to the local connections and
\* published on the replication channel when the handling returns.
C21_StoredThenPublished ==
    lastBroadcast.made => lastBroadcast.published /\ lastBroadcast.copies >= 1

\* no handler and no completion callback is in flight or still to run
Quiet ==
    /\ \A h \in Handlers : ~InFlight(h)
    /\ \A i \in 1..MaxSpins : timers[i].pc \notin {"scheduled", "getCached", "updateDB", "cacheState"}

\* C22: once nothing is in flight, the game state of the last game_state_update
\* that the connected clients received equals the cached state and the state in
\* the durable store.
C22_Converged ==
    (Quiet /\ connections # {} /\ lastBroadcast.copies > 0 /\ cache.present)
        => lastBroadcast.state = cache.state /\ cache.state = db

\* C23: a local connection gets an event that its instance originated once,
\* whatever SERVER_ID is: the copy that comes back on the replication channel
\* is ignored.
C23_DeliveredOnce == lastBroadcast.copies <= 1

\* C24: a message that brings its source over the limit of the current window
\* is rejected with 'Rate limit exceeded'.
C24_OverLimitRejected == limiter.inWindow > RateLimit => limiter.verdict = "rejected"

\* C25: create_session never fails on an id collision: an id that has a row in
\* durable storage is detected and replaced.
C25_CreateSucceeds == registry.reply.type # "error"

\* C26: once the session is expired, a join_session or a game_action naming it
\* starts no handling, changes nothing and is answered with an error reply.
C26_MissingSessionChangesNothing ==
    [][expired =>
         /\ \A h \in Handlers : handler[h].pc = "idle" => handler'[h].pc = "idle"
         /\ received' = received + 1
               => /\ dropped' = ErrorReply("notfound", "Session not found")
                  /\ UNCHANGED <<db, cache, sessionUsers, connections, handler, timers>>
         /\ (dropped' # dropped /\ dropped'.kind = "notfound")
               => /\ dropped'.reply \in {"Session not found", "Session not found or expired"}
                  /\ UNCHANGED <<db, cache, sessionUsers, connections, handler, timers>>]_vars

\* a join_session named the expired session after games had been added
C26_Witness ==
    /\ expired
    /\ dropped = ErrorReply("notfound", "Session not found or expired")
    /\ "B" \notin connections
    /\ received > 0

\* C27: after a join_session the cache holds the session's state, also when the
\* join's read missed the cache.
C27_MissRepopulates ==
    [][\A h \in Handlers :
         handler[h].pc = "sendJoined" /\ handler'[h] = IdleHandler => cache'.present]_vars

\* C28: every malformed message and every message of an unrecognized type is
\* answered with an error reply.
C28_InvalidAnswered ==
    dropped.kind \in {"malformed", "unknown"} => dropped.reply = "Invalid message format"

\* C29: a mutation whose persisting failed on an unreachable store is answered
\* with the generic error reply.
C29_FailureAnswered == dropped.kind = "failed" => dropped.reply = "Failed to process action"

\* C30: baseRotation puts the middle of the winner's sector, as the client
\* draws it, at -pi/2, and finalRotation is baseRotation plus 10 to 14 whole
\* turns.
C30_WinnerAtTop ==
    wheel.n > 0 =>
        /\ SectorMiddle(wheel.n, wheel.winningIndex, wheel.baseRotation) = 0 - PiHalf(wheel.n)
        /\ \E k \in 10..14 : wheel.finalRotation = wheel.baseRotation + k * TwoPi(wheel.n)

\* the last of three sectors won, with the most extra turns
C30_Witness ==
    /\ wheel.n = 3 /\ wheel.winningIndex = 2
    /\ wheel.finalRotation - wheel.baseRotation = 14 * TwoPi(3)

\* C31: when a spin ends, the winner the server declares is the game under the
\* pointer of a client's wheel: the games as they are then, sorted by name,
\* turned by the spin's rotation (stated for spins on at least one game).
C31_WinnerUnderPointer ==
    [][\A i \in 1..MaxSpins :
         LET gs == ReadState(timers[i].session)
         IN (timers[i].pc = "getCached" /\ timers'[i].pc = "updateDB"
             /\ gs.spinData.preCalculatedWinner # NullGame)
            => timers'[i].gameState.winner
                   \in UnderPointer(SortByName(gs.selectedGames), gs.spinData.baseRotation)]_vars

\* C32: the user_left event of a closed connection is sent to every open
\* connection still registered for the session, on whichever instance (stated
\* for a connection whose member id no other connection of the session has).
C32_LeftReachesAll ==
    (net.left.conn # 0 /\ net.left.sameUser = {}) =>
        net.left.registered \subseteq net.left.recipients

\* the connection k has its entry in its instance's map
IsRegistered(n, k) ==
    /\ n.conn[k].sessionId # ""
    /\ n.map[InstanceOf(k)][n.conn[k].sessionId][n.conn[k].userId] = k

IsMember(n, k) ==
    \E m \in 1..Len(n.members[n.conn[k].sessionId]) :
        n.members[n.conn[k].sessionId][m] = n.conn[k].userId

\* C35: the close of one connection neither deregisters another open connection
\* nor removes the member record of another open joined connection.
C35_CloseKeepsOthers ==
    [][\A c \in Conns :
         /\ (net.conn[c].open /\ ~net'.conn[c].open)
               => \A k \in Conns \ {c} :
                      (net.conn[k].open /\ IsRegistered(net, k)) => IsRegistered(net', k)
         /\ (net.conn[c].closePc = "removeUser" /\ net'.conn[c].closePc = "broadcast")
               => \A k \in Conns \ {c} :
                      (net.conn[k].open /\ net.conn[k].sessionId # "" /\ IsMember(net, k))
                          => IsMember(net', k)]_vars

\* C36: once a connection is closed and its close handling has finished, no
\* entry of a connections map refers to it, however many join_session messages
\* it had sent (stated for joins that were handled before it closed).
C36_ClosedLeavesNoEntry ==
    \A c \in Conns :
        (net.conn[c].closePc = "done" /\ ~net.conn[c].lateJoin)
            => \A i \in Instances, s \in NetSessions, u \in Users : net.map[i][s][u] # c

\* C38: a creator's kick_user naming another member who has an open joined
\* connection, on whichever instance, reaches that member: 'kicked' is sent and
\* the connection is closed.
C38_KickReachesMember == net.kick.made => net.kick.delivered

\* C33: when the completion callback of a spin started in session S ends, no
\* other session's state has been written by it and S is no longer spinning,
\* also when the connection has joined another session since.
C33_TimerStaysInSession ==
    [][\A c \in Conns :
         LET o == net.timer[c].origin
         IN (/\ net.timer[c].pc \in {"getCached", "write"}
             /\ net'.timer[c].pc \in {"noop", "completed"})
            => /\ \A s \in NetSessions \ {o} : net'.store[s] = net.store[s]
               /\ ~net'.store[o].db.isSpinning]_vars

\* C34: a game_action writes only the session its connection was joined to when
\* the message arrived; every other session's state is unchanged.
C34_ActionStaysInSession ==
    [][\A t \in NetSlots :
         (net.task[t].pc = "write" /\ net'.task[t].pc = "idle")
            => \A s \in NetSessions \ {net.task[t].origin} : net'.store[s] = net.store[s]]_vars

\* C37: when a mutation's handling finishes, also when the durable or the cache
\* write fails part-way, the cached state, if present, equals the durable
\* state.  Stated for a mutation that no other has disturbed: it finishes at the
\* cache write with the durable state as it wrote it, or at the durable write
\* with the cache as consistent as it found it.
C37_CacheMatchesDurable ==
    [][\A h \in Handlers :
         (/\ handler'[h].pc = "idle"
          /\ \/ handler[h].pc = "cacheState" /\ db = handler[h].gameState
             \/ handler[h].pc = "updateDB" /\ (cache.present => cache.state = db))
         => (cache'.present => cache'.state = db')]_vars

====
